---- MODULE Spec2Model ----
(***************************************************************************)
(* State-machine model of the shared simulation core of rustcraft: the     *)
(* chunked voxel store (server and client variants), the player movement   *)
(* simulator, the client frame-input buffering and the server tick.        *)
(*                                                                         *)
(* Continuous quantities (f32 in the code) are fixed-point integers:       *)
(* positions and lengths in 1/1000 block, velocities in 1/1000 block per   *)
(* second, times in milliseconds.  A product that is divided back to the   *)
(* unit is truncated toward zero.                                          *)
(***************************************************************************)
EXTENDS Integers, Sequences, FiniteSets, TLC

VARIABLES
    conv,      \* coordinate conversion under test: inputs and results
    server,    \* ServerChunkWorldMap: [map, chunks_to_update]
    client,    \* ClientWorldMap: [map]
    call,      \* the last store operation and what each store returned
    player,    \* the Player simulated against the server store
    mirror,    \* the client's local mirror of the Player (client store)
    prev,      \* the Player as it was when the last simulation was entered
    moved,     \* the Player of the last simulation before fall-out recovery
    frame,     \* the PlayerFrameInput of the last simulation
    simCount,  \* number of simulations run
    keyboard,  \* client: actions held and actions pressed since the last frame
    ui_mode,   \* client: UIMode
    frame_inputs,  \* client: CurrentFrameInputs, the frame-input accumulator
    tick_buffer,   \* client: PlayerTickInputsBuffer
    sync_time,     \* client: SyncTime
    sched,     \* client: the system that runs next, frames started, and
               \* whether the last player_movement_system ran the simulator
    players,   \* server: ServerWorldMap.players
    events,    \* server: PlayerInputsEvent not yet read
    sent,      \* server: PlayerUpdate messages broadcast by the last tick
    tickLog    \* server: ticks run, events the last tick read, the players
               \* it started with, and whether it panicked

coordVars == <<conv>>
storeVars == <<server, client, call>>
simVars == <<player, mirror, prev, moved, frame, simCount>>
clientVars == <<keyboard, ui_mode, frame_inputs, tick_buffer, sync_time, sched>>
tickVars == <<players, events, sent, tickLog>>
vars == <<conv, server, client, call, player, mirror, prev, moved, frame, simCount,
          keyboard, ui_mode, frame_inputs, tick_buffer, sync_time, sched,
          players, events, sent, tickLog>>

(***************************************************************************)
(* Integer arithmetic of the code (i32 `/` and `%` truncate toward zero).  *)
(***************************************************************************)
RustDiv(a, b) == IF a >= 0 THEN a \div b ELSE -((-a) \div b)

RustRem(a, b) == a - b * RustDiv(a, b)

CHUNK_SIZE == 16

IVec3(x, y, z) == [x |-> x, y |-> y, z |-> z]

\* Chunk coordinate of one block coordinate: floor division by CHUNK_SIZE.
block_to_chunk_coord(x) ==
    IF x >= 0 THEN RustDiv(x, CHUNK_SIZE)
    ELSE RustDiv(x - (CHUNK_SIZE - 1), CHUNK_SIZE)

\* A local offset that forgets the normalisation of negative remainders.
LocalOffsetTruncated(x) == RustRem(x, CHUNK_SIZE)

\* The inline expression ((x % CHUNK_SIZE) + CHUNK_SIZE) % CHUNK_SIZE.
LocalOffset(x) == RustRem(RustRem(x, CHUNK_SIZE) + CHUNK_SIZE, CHUNK_SIZE)

global_block_to_chunk_pos(p) ==
    IVec3(block_to_chunk_coord(p.x), block_to_chunk_coord(p.y),
          block_to_chunk_coord(p.z))

global_block_to_local_offset(p) ==
    IVec3(RustRem(RustRem(p.x, CHUNK_SIZE) + CHUNK_SIZE, CHUNK_SIZE),
          RustRem(RustRem(p.y, CHUNK_SIZE) + CHUNK_SIZE, CHUNK_SIZE),
          RustRem(RustRem(p.z, CHUNK_SIZE) + CHUNK_SIZE, CHUNK_SIZE))

(***************************************************************************)
(* Hash maps are functions with a finite domain; None is the absent block  *)
(* of an Option<BlockData>, a value outside every block set.               *)
(***************************************************************************)
None == [id |-> "None"]

EmptyMap == [k \in {} |-> None]

MapGet(m, k) == IF k \in DOMAIN m THEN m[k] ELSE None

MapInsert(m, k, val) == [j \in (DOMAIN m) \cup {k} |-> IF j = k THEN val ELSE m[j]]

MapRemove(m, k) == [j \in (DOMAIN m) \ {k} |-> m[j]]

\* ServerChunk::default() and ClientChunk::default()
DefaultServerChunk == [map |-> EmptyMap, ts |-> 0, sent_to_clients |-> <<>>]

DefaultClientChunk == [map |-> EmptyMap, entity |-> "None"]

(***************************************************************************)
(* impl WorldMap for ServerChunkWorldMap                                   *)
(***************************************************************************)
\* A lookup whose chunk coordinate is the truncating quotient x / CHUNK_SIZE.
ServerGetBlockTruncatedChunk(s, p) ==
    LET c == IVec3(RustDiv(p.x, CHUNK_SIZE), RustDiv(p.y, CHUNK_SIZE),
                   RustDiv(p.z, CHUNK_SIZE))
    IN  IF c \in DOMAIN s.map
        THEN MapGet(s.map[c].map,
                    IVec3(LocalOffset(p.x), LocalOffset(p.y), LocalOffset(p.z)))
        ELSE None

ServerGetBlock(s, p) ==
    LET c == IVec3(block_to_chunk_coord(p.x), block_to_chunk_coord(p.y),
                   block_to_chunk_coord(p.z))
    IN  IF c \in DOMAIN s.map
        THEN MapGet(s.map[c].map,
                    IVec3(LocalOffset(p.x), LocalOffset(p.y), LocalOffset(p.z)))
        ELSE None

\* get_block_mut_by_coordinates hands out the same slot as the shared lookup.
ServerGetBlockMut(s, p) ==
    LET c == IVec3(block_to_chunk_coord(p.x), block_to_chunk_coord(p.y),
                   block_to_chunk_coord(p.z))
    IN  IF c \in DOMAIN s.map
        THEN MapGet(s.map[c].map,
                    IVec3(LocalOffset(p.x), LocalOffset(p.y), LocalOffset(p.z)))
        ELSE None

\* A set_block that keys the block by its global position inside the chunk.
ServerSetBlockGlobalKey(s, p, b) ==
    LET c == IVec3(block_to_chunk_coord(p.x), block_to_chunk_coord(p.y),
                   block_to_chunk_coord(p.z))
        chunk == IF c \in DOMAIN s.map THEN s.map[c] ELSE DefaultServerChunk
    IN  [s EXCEPT !.map = MapInsert(s.map, c,
                              [chunk EXCEPT !.map = MapInsert(chunk.map, p, b)]),
                  !.chunks_to_update = Append(s.chunks_to_update, c)]

ServerSetBlock(s, p, b) ==
    LET c == IVec3(block_to_chunk_coord(p.x), block_to_chunk_coord(p.y),
                   block_to_chunk_coord(p.z))
        chunk == IF c \in DOMAIN s.map THEN s.map[c] ELSE DefaultServerChunk
        sub == IVec3(LocalOffset(p.x), LocalOffset(p.y), LocalOffset(p.z))
    IN  [s EXCEPT !.map = MapInsert(s.map, c,
                              [chunk EXCEPT !.map = MapInsert(chunk.map, sub, b)]),
                  !.chunks_to_update = Append(s.chunks_to_update, c)]

\* A removal that does not push the chunk to chunks_to_update.
ServerRemoveBlockUnmarked(s, p) ==
    LET kind == ServerGetBlock(s, p)
        chunk_pos == global_block_to_chunk_pos(p)
    IN  IF kind = None THEN [store |-> s, ret |-> None]
        ELSE [store |->
                [s EXCEPT !.map[chunk_pos].map =
                              MapRemove(@, global_block_to_local_offset(p))],
              ret |-> kind]

\* A removal that looks its chunk up with entry().or_default().
ServerRemoveBlockCreatesChunk(s, p) ==
    LET kind == ServerGetBlock(s, p)
        chunk_pos == global_block_to_chunk_pos(p)
        chunk == IF chunk_pos \in DOMAIN s.map THEN s.map[chunk_pos]
                 ELSE DefaultServerChunk
    IN  IF kind = None
        THEN [store |-> [s EXCEPT !.map = MapInsert(@, chunk_pos, chunk)],
              ret |-> None]
        ELSE [store |->
                [s EXCEPT !.map[chunk_pos].map =
                              MapRemove(@, global_block_to_local_offset(p)),
                          !.chunks_to_update = Append(@, chunk_pos)],
              ret |-> kind]

\* A removal that drops the chunk from the map once its last block is gone.
ServerRemoveBlockDropsEmptyChunk(s, p) ==
    LET kind == ServerGetBlock(s, p)
        chunk_pos == global_block_to_chunk_pos(p)
        left == MapRemove(s.map[chunk_pos].map, global_block_to_local_offset(p))
    IN  IF kind = None THEN [store |-> s, ret |-> None]
        ELSE [store |->
                [s EXCEPT !.map = IF DOMAIN left = {} THEN MapRemove(@, chunk_pos)
                                  ELSE [@ EXCEPT ![chunk_pos].map = left],
                          !.chunks_to_update = Append(@, chunk_pos)],
              ret |-> kind]

\* Result of remove_block_by_coordinates: [store, ret].
ServerRemoveBlock(s, p) ==
    LET kind == ServerGetBlock(s, p)
        chunk_pos == global_block_to_chunk_pos(p)
    IN  IF kind = None THEN [store |-> s, ret |-> None]
        ELSE IF chunk_pos \notin DOMAIN s.map THEN [store |-> s, ret |-> None]
        ELSE [store |->
                [s EXCEPT !.map[chunk_pos].map =
                              MapRemove(@, global_block_to_local_offset(p)),
                          !.chunks_to_update = Append(@, chunk_pos)],
              ret |-> kind]

ServerMarkBlockForUpdate(s, p) ==
    [s EXCEPT !.chunks_to_update =
        Append(@, IVec3(block_to_chunk_coord(p.x), block_to_chunk_coord(p.y),
                        block_to_chunk_coord(p.z)))]

(***************************************************************************)
(* impl WorldMap for ClientWorldMap                                        *)
(***************************************************************************)
ClientGetBlock(c, p) ==
    LET chunk_pos == global_block_to_chunk_pos(p)
    IN  IF chunk_pos \in DOMAIN c.map
        THEN MapGet(c.map[chunk_pos].map, global_block_to_local_offset(p))
        ELSE None

ClientGetBlockMut(c, p) ==
    LET chunk_pos == global_block_to_chunk_pos(p)
    IN  IF chunk_pos \in DOMAIN c.map
        THEN MapGet(c.map[chunk_pos].map, global_block_to_local_offset(p))
        ELSE None

\* A removal that reports the block but leaves it in the chunk.
ClientRemoveBlockKeeps(c, p) ==
    [store |-> c, ret |-> ClientGetBlock(c, p)]

ClientRemoveBlock(c, p) ==
    LET kind == ClientGetBlock(c, p)
        chunk_pos == global_block_to_chunk_pos(p)
    IN  IF kind = None THEN [store |-> c, ret |-> None]
        ELSE IF chunk_pos \notin DOMAIN c.map THEN [store |-> c, ret |-> None]
        ELSE [store |->
                [c EXCEPT !.map[chunk_pos].map =
                              MapRemove(@, global_block_to_local_offset(p))],
              ret |-> kind]

ClientSetBlock(c, p, b) ==
    LET chunk_pos == global_block_to_chunk_pos(p)
        chunk == IF chunk_pos \in DOMAIN c.map THEN c.map[chunk_pos]
                 ELSE DefaultClientChunk
    IN  [c EXCEPT !.map = MapInsert(c.map, chunk_pos,
              [chunk EXCEPT !.map =
                  MapInsert(chunk.map, global_block_to_local_offset(p), b)])]

\* mark_block_for_update: "Useless in client".
ClientMarkBlockForUpdate(c, p) == c

(***************************************************************************)
(* Fixed-point vectors.  Unit is the number of model units in one block    *)
(* (and in one of the code's 1.0).                                         *)
(***************************************************************************)
Unit == 10 * 100

Vec3(x, y, z) == [x |-> x, y |-> y, z |-> z]

Vec3Zero == Vec3(0, 0, 0)

VecAdd(a, b) == Vec3(a.x + b.x, a.y + b.y, a.z + b.z)

VecSub(a, b) == Vec3(a.x - b.x, a.y - b.y, a.z - b.z)

Min(a, b) == IF a <= b THEN a ELSE b

Max(a, b) == IF a >= b THEN a ELSE b

\* f32::floor() as i32
Floor(a) == IF a >= 0 THEN a \div Unit ELSE -((-a + Unit - 1) \div Unit)

\* f32 as i32: the cast drops the fraction (rounds toward zero)
AsI32(a) == RustDiv(a, Unit)

\* a * delta, with delta = delta_ms as f32 / 1000.0
TimesDelta(a, delta_ms) == RustDiv(a * delta_ms, 1000)

RECURSIVE SqrtIter(_, _)
SqrtIter(n, r) ==
    LET next == (r + n \div r) \div 2
    IN  IF next >= r THEN r ELSE SqrtIter(n, next)

\* Largest r with r * r <= n.
ISqrt(n) == IF n = 0 THEN 0 ELSE SqrtIter(n, n)

NaN == "NaN"

\* Vec3::normalize: v / |v|; a zero vector has no direction (NaN in f32).
Normalize(v) ==
    LET len == ISqrt(v.x * v.x + v.y * v.y + v.z * v.z)
    IN  IF len = 0 THEN Vec3(NaN, NaN, NaN)
        ELSE Vec3(RustDiv(v.x * Unit, len), RustDiv(v.y * Unit, len),
                  RustDiv(v.z * Unit, len))

(***************************************************************************)
(* Camera transform: a rotation by yaw * 45 degrees about the vertical     *)
(* axis and a pitch of pitch * 45 degrees.                                 *)
(***************************************************************************)
Sin45(k) ==
    CASE k % 8 = 0 -> 0
      [] k % 8 = 1 -> 707
      [] k % 8 = 2 -> 1000
      [] k % 8 = 3 -> 707
      [] k % 8 = 4 -> 0
      [] k % 8 = 5 -> -707
      [] k % 8 = 6 -> -1000
      [] k % 8 = 7 -> -707

Cos45(k) == Sin45(k + 2)

Camera(yaw, pitch) == [yaw |-> yaw, pitch |-> pitch]

\* Transform::forward(): the rotated -Z axis.
CameraForward(cam) ==
    Vec3(RustDiv(-Sin45(cam.yaw) * Cos45(cam.pitch), Unit),
         Sin45(cam.pitch),
         RustDiv(-Cos45(cam.yaw) * Cos45(cam.pitch), Unit))

\* Transform::right(): the rotated +X axis.
CameraRight(cam) == Vec3(Cos45(cam.yaw), 0, -Sin45(cam.yaw))

(***************************************************************************)
(* Derived queries of trait WorldMap.  A world is a store with its variant *)
(* (the trait object the caller passes).                                   *)
(***************************************************************************)
ServerWorld(s) == [kind |-> "server", store |-> s]

ClientWorld(c) == [kind |-> "client", store |-> c]

WorldGet(w, p) ==
    IF w.kind = "server" THEN ServerGetBlock(w.store, p)
    ELSE ClientGetBlock(w.store, p)

Aabb3d(center, half_size) ==
    [min |-> VecSub(center, half_size), max |-> VecAdd(center, half_size)]

\* BlockId::get_hitbox
FullBlock == [kind |-> "FullBlock"]

NoHitbox == [kind |-> "None"]

get_hitbox(id) ==
    CASE id = "Water" -> NoHitbox
      [] id = "Dandelion" ->
            [kind |-> "Aabb",
             min |-> Vec3(300, 0, 300), max |-> Vec3(700, 600, 700)]
      [] OTHER -> FullBlock

\* What one block contributes to check_collision_box.
BlockCollides(block, hitbox) ==
    LET hb == get_hitbox(block.id)
    IN  CASE hb.kind = "FullBlock" -> TRUE
          [] hb.kind = "None" -> FALSE
          [] hb.kind = "Aabb" ->
                LET min == Vec3(Max(hitbox.min.x, hb.min.x),
                                Max(hitbox.min.y, hb.min.y),
                                Max(hitbox.min.z, hb.min.z))
                    max == Vec3(Min(hitbox.max.x, hb.max.x),
                                Min(hitbox.max.y, hb.max.y),
                                Min(hitbox.max.z, hb.max.z))
                IN  min = Vec3(Min(max.x, min.x), Min(max.y, min.y),
                               Min(max.z, min.z))

\* A collision query that looks only at the block under the box's minimum.
CheckCollisionBoxMinCorner(w, hitbox) ==
    LET b == WorldGet(w, IVec3(Floor(hitbox.min.x), Floor(hitbox.min.y),
                               Floor(hitbox.min.z)))
    IN  b # None /\ BlockCollides(b, hitbox)

check_collision_box(w, hitbox) ==
    \E x \in Floor(hitbox.min.x)..Floor(hitbox.max.x) :
    \E y \in Floor(hitbox.min.y)..Floor(hitbox.max.y) :
    \E z \in Floor(hitbox.min.z)..Floor(hitbox.max.z) :
        LET block == WorldGet(w, IVec3(x, y, z))
        IN  block # None /\ BlockCollides(block, hitbox)

\* The Vec of (2 * radius + 1)^3 chunk coordinates, in push order.
get_surrounding_chunks(position, radius) ==
    LET cx == block_to_chunk_coord(AsI32(position.x))
        cy == block_to_chunk_coord(AsI32(position.y))
        cz == block_to_chunk_coord(AsI32(position.z))
        side == 2 * radius + 1
    IN  [n \in 1..(side * side * side) |->
            IVec3(cx + ((n - 1) \div (side * side)) - radius,
                  cy + (((n - 1) \div side) % side) - radius,
                  cz + ((n - 1) % side) - radius)]

\* The loop `for y in (0..256).rev()`, walked in runs of CHUNK_SIZE heights:
\* ScanDown visits y, y - 1, .., lo and yields the first occupied height
\* or -1; HeightScan continues below a run without a block.
RECURSIVE ScanDown(_, _, _, _)
ScanDown(w, position, y, lo) ==
    IF y < lo THEN -1
    ELSE IF WorldGet(w, IVec3(AsI32(position.x), y, AsI32(position.z))) # None
         THEN y
         ELSE ScanDown(w, position, y - 1, lo)

RECURSIVE HeightScan(_, _, _)
HeightScan(w, position, y) ==
    IF y < 0 THEN 0
    ELSE IF ScanDown(w, position, y, Max(0, y - CHUNK_SIZE + 1)) >= 0
         THEN ScanDown(w, position, y, Max(0, y - CHUNK_SIZE + 1))
         ELSE HeightScan(w, position, Max(0, y - CHUNK_SIZE + 1) - 1)

\* A scan whose range is 0..=256.
GetHeightGroundInclusive(w, position) == HeightScan(w, position, 256)

get_height_ground(w, position) == HeightScan(w, position, 255)

(***************************************************************************)
(* Player and the movement simulator.                                      *)
(***************************************************************************)
SPEED == 5

FLY_SPEED_MULTIPLIER == 4

GRAVITY == -20

JUMP_VELOCITY == 8

MAX_VERTICAL_SPEED == 50

FALL_LIMIT == -50

PlayerHalfWidth == 400

PlayerHalfHeight == 900

RespawnPoint == Vec3(0, 100 * Unit, 0)

NetworkActions ==
    {"MoveForward", "MoveBackward", "MoveLeft", "MoveRight", "JumpOrFlyUp",
     "SneakOrFlyDown", "ToggleFlyMode"}

is_pressed(frame_input, a) == a \in frame_input.inputs

\* players::collision::check_player_collision
check_player_collision(position, p, w) ==
    check_collision_box(w,
        Aabb3d(position, Vec3(PlayerHalfWidth, PlayerHalfHeight, PlayerHalfWidth)))

\* A direction that keeps the plain sum of the pressed axes.
GetDesiredDirectionUnnormalized(p, frame_input) ==
    LET forward == Normalize([CameraForward(p.camera_transform) EXCEPT !.y = 0])
        right == Normalize([CameraRight(p.camera_transform) EXCEPT !.y = 0])
        d1 == IF is_pressed(frame_input, "MoveBackward")
              THEN VecSub(Vec3Zero, forward) ELSE Vec3Zero
        d2 == IF is_pressed(frame_input, "MoveForward") THEN VecAdd(d1, forward) ELSE d1
        d3 == IF is_pressed(frame_input, "MoveLeft") THEN VecSub(d2, right) ELSE d2
        d4 == IF is_pressed(frame_input, "MoveRight") THEN VecAdd(d3, right) ELSE d3
        d6 == IF is_pressed(frame_input, "JumpOrFlyUp")
              THEN VecAdd(d4, Vec3(0, Unit, 0)) ELSE d4
    IN  IF is_pressed(frame_input, "SneakOrFlyDown")
        THEN VecSub(d6, Vec3(0, Unit, 0)) ELSE d6

get_desired_direction(p, frame_input) ==
    LET forward == Normalize([CameraForward(p.camera_transform) EXCEPT !.y = 0])
        right == Normalize([CameraRight(p.camera_transform) EXCEPT !.y = 0])
        d1 == IF is_pressed(frame_input, "MoveBackward")
              THEN VecSub(Vec3Zero, forward) ELSE Vec3Zero
        d2 == IF is_pressed(frame_input, "MoveForward") THEN VecAdd(d1, forward) ELSE d1
        d3 == IF is_pressed(frame_input, "MoveLeft") THEN VecSub(d2, right) ELSE d2
        d4 == IF is_pressed(frame_input, "MoveRight") THEN VecAdd(d3, right) ELSE d3
        d5 == IF d4 # Vec3Zero THEN Normalize(d4) ELSE d4
        d6 == IF is_pressed(frame_input, "JumpOrFlyUp")
              THEN VecAdd(d5, Vec3(0, Unit, 0)) ELSE d5
    IN  IF is_pressed(frame_input, "SneakOrFlyDown")
        THEN VecSub(d6, Vec3(0, Unit, 0)) ELSE d6

\* A flying step that moves the player and keeps its vertical velocity and
\* its grounded flag.
FlyKeepsVertical(p, direction, delta_ms) ==
    [p EXCEPT
        !.position =
            Vec3(@.x + TimesDelta(direction.x * SPEED * FLY_SPEED_MULTIPLIER, delta_ms),
                 @.y + TimesDelta(direction.y * SPEED * FLY_SPEED_MULTIPLIER, delta_ms),
                 @.z + TimesDelta(direction.z * SPEED * FLY_SPEED_MULTIPLIER, delta_ms))]

fly(p, direction, delta_ms) ==
    [p EXCEPT
        !.position =
            Vec3(@.x + TimesDelta(direction.x * SPEED * FLY_SPEED_MULTIPLIER, delta_ms),
                 @.y + TimesDelta(direction.y * SPEED * FLY_SPEED_MULTIPLIER, delta_ms),
                 @.z + TimesDelta(direction.z * SPEED * FLY_SPEED_MULTIPLIER, delta_ms)),
        !.velocity.y = 0,
        !.on_ground = FALSE]

\* A vertical resolution that accepts the candidate height without a query.
FlyNotVerticalUnchecked(p, new_vec_y, w) ==
    [p EXCEPT !.position.y = new_vec_y.y, !.on_ground = FALSE]

\* The vertical test of fly_not; new_vec_y is the candidate built from the
\* position at entry.
FlyNotVertical(p, new_vec_y, w) ==
    IF check_player_collision(new_vec_y, p, w)
    THEN [p EXCEPT !.on_ground = TRUE, !.velocity.y = 0]
    ELSE [p EXCEPT !.position.y = new_vec_y.y, !.on_ground = FALSE]

\* A resolution in which a horizontal collision on x also rejects the
\* move on z.
FlyNotWallStopsBoth(p, is_jumping, direction, delta_ms, w) ==
    LET new_x == p.position.x + TimesDelta(direction.x * SPEED, delta_ms)
        new_z == p.position.z + TimesDelta(direction.z * SPEED, delta_ms)
        vy == Min(Max(p.velocity.y, -MAX_VERTICAL_SPEED * Unit),
                  MAX_VERTICAL_SPEED * Unit)
        new_y == p.position.y + TimesDelta(vy, delta_ms)
        new_vec_x == [p.position EXCEPT !.x = new_x]
        new_vec_y == [p.position EXCEPT !.y = new_y]
        new_vec_z == [p.position EXCEPT !.z = new_z]
        p0 == [p EXCEPT !.velocity.y = vy]
        p1 == IF ~check_player_collision(new_vec_x, p0, w)
              THEN [p0 EXCEPT !.position.x = new_x] ELSE p0
        p2 == FlyNotVertical(p1, new_vec_y, w)
        p3 == IF /\ ~check_player_collision(new_vec_z, p2, w)
                 /\ ~check_player_collision(new_vec_x, p0, w)
              THEN [p2 EXCEPT !.position.z = new_z] ELSE p2
    IN  IF p3.on_ground /\ is_jumping
        THEN [p3 EXCEPT !.velocity.y = JUMP_VELOCITY * Unit, !.on_ground = FALSE]
        ELSE IF ~p3.on_ground
        THEN [p3 EXCEPT !.velocity.y = @ + TimesDelta(GRAVITY * Unit, delta_ms)]
        ELSE p3

\* A resolution that grants the jump impulse whenever jump is pressed.
FlyNotJumpsInAir(p, is_jumping, direction, delta_ms, w) ==
    LET new_x == p.position.x + TimesDelta(direction.x * SPEED, delta_ms)
        new_z == p.position.z + TimesDelta(direction.z * SPEED, delta_ms)
        vy == Min(Max(p.velocity.y, -MAX_VERTICAL_SPEED * Unit),
                  MAX_VERTICAL_SPEED * Unit)
        new_y == p.position.y + TimesDelta(vy, delta_ms)
        new_vec_x == [p.position EXCEPT !.x = new_x]
        new_vec_y == [p.position EXCEPT !.y = new_y]
        new_vec_z == [p.position EXCEPT !.z = new_z]
        p0 == [p EXCEPT !.velocity.y = vy]
        p1 == IF ~check_player_collision(new_vec_x, p0, w)
              THEN [p0 EXCEPT !.position.x = new_x] ELSE p0
        p2 == FlyNotVertical(p1, new_vec_y, w)
        p3 == IF ~check_player_collision(new_vec_z, p2, w)
              THEN [p2 EXCEPT !.position.z = new_z] ELSE p2
    IN  IF is_jumping
        THEN [p3 EXCEPT !.velocity.y = JUMP_VELOCITY * Unit, !.on_ground = FALSE]
        ELSE IF ~p3.on_ground
        THEN [p3 EXCEPT !.velocity.y = @ + TimesDelta(GRAVITY * Unit, delta_ms)]
        ELSE p3

fly_not(p, is_jumping, direction, delta_ms, w) ==
    LET new_x == p.position.x + TimesDelta(direction.x * SPEED, delta_ms)
        new_z == p.position.z + TimesDelta(direction.z * SPEED, delta_ms)
        vy == Min(Max(p.velocity.y, -MAX_VERTICAL_SPEED * Unit),
                  MAX_VERTICAL_SPEED * Unit)
        new_y == p.position.y + TimesDelta(vy, delta_ms)
        \* the three candidates are built from the position at entry
        new_vec_x == [p.position EXCEPT !.x = new_x]
        new_vec_y == [p.position EXCEPT !.y = new_y]
        new_vec_z == [p.position EXCEPT !.z = new_z]
        p0 == [p EXCEPT !.velocity.y = vy]
        p1 == IF ~check_player_collision(new_vec_x, p0, w)
              THEN [p0 EXCEPT !.position.x = new_x] ELSE p0
        p2 == FlyNotVertical(p1, new_vec_y, w)
        p3 == IF ~check_player_collision(new_vec_z, p2, w)
              THEN [p2 EXCEPT !.position.z = new_z] ELSE p2
    IN  IF p3.on_ground /\ is_jumping
        THEN [p3 EXCEPT !.velocity.y = JUMP_VELOCITY * Unit, !.on_ground = FALSE]
        ELSE IF ~p3.on_ground
        THEN [p3 EXCEPT !.velocity.y = @ + TimesDelta(GRAVITY * Unit, delta_ms)]
        ELSE p3

\* A recovery that also treats the threshold itself as fallen out.
FallRecoveryInclusive(p) ==
    IF p.position.y <= FALL_LIMIT * Unit
    THEN [p EXCEPT !.position = RespawnPoint, !.velocity.y = 0]
    ELSE p

\* The fall-out recovery at the end of simulate_player_movement.
FallRecovery(p) ==
    IF p.position.y < FALL_LIMIT * Unit
    THEN [p EXCEPT !.position = RespawnPoint, !.velocity.y = 0]
    ELSE p

\* The fly-mode toggle of simulate_player_movement.
ToggleFly(p, frame_input) ==
    IF is_pressed(frame_input, "ToggleFlyMode")
    THEN [p EXCEPT !.is_flying = ~@] ELSE p

\* simulate_player_movement up to, and without, the fall-out recovery.
MoveBranch(p, w, frame_input) ==
    LET pt == [ToggleFly(p, frame_input) EXCEPT
                  !.camera_transform = frame_input.camera]
        direction == get_desired_direction(pt, frame_input)
        is_jumping == is_pressed(frame_input, "JumpOrFlyUp")
    IN  IF pt.is_flying
        THEN fly(pt, direction, frame_input.delta_ms)
        ELSE fly_not(pt, is_jumping, direction, frame_input.delta_ms, w)

NotReady(p) == Len(get_surrounding_chunks(p.position, 1)) < 9

simulate_player_movement(p, w, frame_input) ==
    IF NotReady(p) THEN p
    ELSE FallRecovery(MoveBranch(p, w, frame_input))

(***************************************************************************)
(* Players and frame inputs.                                               *)
(***************************************************************************)
NewPlayer(id, position, vy, is_flying, on_ground) ==
    [id |-> id, position |-> position, velocity |-> Vec3(0, vy, 0),
     is_flying |-> is_flying, on_ground |-> on_ground,
     camera_transform |-> Camera(0, 0), last_input_processed |-> 0,
     inventory |-> "inventory"]

FrameInput(time_ms, delta_ms, inputs, camera) ==
    [time_ms |-> time_ms, delta_ms |-> delta_ms, inputs |-> inputs,
     camera |-> camera, position |-> Vec3Zero, hotbar_slot |-> 0,
     view_mode |-> "FirstPerson"]

NoFrame == FrameInput(0, 0, {}, Camera(0, 0))

\* State of the client systems and of the server tick before anything ran.
ClientIdle ==
    /\ keyboard = [pressed |-> {}, just_pressed |-> {}]
    /\ ui_mode = "Closed"
    /\ frame_inputs = NoFrame
    /\ tick_buffer = <<>>
    /\ sync_time = [curr_time_ms |-> 0, last_time_ms |-> 0]
    /\ sched = [next |-> "input", frames |-> 0, simulated |-> FALSE]

TickIdle ==
    /\ players = EmptyMap
    /\ events = <<>>
    /\ sent = <<>>
    /\ tickLog = [n |-> 0, last |-> "none", received |-> 0, read |-> <<>>,
                  before |-> EmptyMap, panicked |-> FALSE]

SimIdle ==
    /\ player = NewPlayer(1, RespawnPoint, 0, FALSE, FALSE)
    /\ mirror = player
    /\ prev = player
    /\ moved = player
    /\ frame = NoFrame
    /\ simCount = 0

(***************************************************************************)
(* Coordinate conversion, driven over a range of block coordinates.  The   *)
(* state holds the coordinate converted last (v) and the one before (w),   *)
(* each with its chunk coordinate and local offset.                        *)
(***************************************************************************)
MaxCoord == 34

CoordRange == (-MaxCoord)..MaxCoord

Located(v) == [v |-> v, chunk |-> block_to_chunk_coord(v), offset |-> LocalOffset(v)]

CoordIdle == conv = [cur |-> Located(0), old |-> Located(0)]

StoreIdle ==
    /\ server = [map |-> EmptyMap, chunks_to_update |-> <<>>]
    /\ client = [map |-> EmptyMap]
    /\ call = [op |-> "none", n |-> 0]

CoordInit == CoordIdle /\ StoreIdle /\ SimIdle /\ ClientIdle /\ TickIdle

Convert ==
    /\ \E v \in CoordRange : conv' = [cur |-> Located(v), old |-> conv.cur]
    /\ UNCHANGED <<storeVars, simVars, clientVars, tickVars>>

CoordNext == Convert

SpecCoord == CoordInit /\ [][CoordNext]_vars

(***************************************************************************)
(* The two stores under the same sequence of primitive operations.         *)
(***************************************************************************)
MaxOps == 3

BlockIds == {"Stone", "Water", "Dandelion"}

BlockData(id) == [id |-> id]

StoreBlocks == {BlockData("Stone"), BlockData("Dandelion")}

StorePositions ==
    {IVec3(0, 0, 0), IVec3(-1, -1, -1), IVec3(-16, 15, -17),
     IVec3(15, 0, -1), IVec3(16, -16, 0), IVec3(-1, 0, 0)}

StoreInit == CoordIdle /\ StoreIdle /\ SimIdle /\ ClientIdle /\ TickIdle

StoreSet ==
    /\ call.n < MaxOps
    /\ \E p \in StorePositions, b \in StoreBlocks :
        /\ server' = ServerSetBlock(server, p, b)
        /\ client' = ClientSetBlock(client, p, b)
        /\ call' = [op |-> "set", n |-> call.n + 1, pos |-> p, block |-> b]
    /\ UNCHANGED <<conv, simVars, clientVars, tickVars>>

StoreRemove ==
    /\ call.n < MaxOps
    /\ \E p \in StorePositions :
        LET sr == ServerRemoveBlock(server, p)
            cr == ClientRemoveBlock(client, p)
        IN  /\ server' = sr.store
            /\ client' = cr.store
            /\ call' = [op |-> "remove", n |-> call.n + 1, pos |-> p,
                        sret |-> sr.ret, cret |-> cr.ret,
                        sold |-> ServerGetBlock(server, p),
                        cold |-> ClientGetBlock(client, p)]
    /\ UNCHANGED <<conv, simVars, clientVars, tickVars>>

StoreGet ==
    /\ call.n < MaxOps
    /\ \E p \in StorePositions :
        call' = [op |-> "get", n |-> call.n + 1, pos |-> p,
                 sret |-> ServerGetBlock(server, p),
                 cret |-> ClientGetBlock(client, p)]
    /\ UNCHANGED <<conv, server, client, simVars, clientVars, tickVars>>

StoreGetMut ==
    /\ call.n < MaxOps
    /\ \E p \in StorePositions :
        call' = [op |-> "get_mut", n |-> call.n + 1, pos |-> p,
                 sret |-> ServerGetBlockMut(server, p),
                 cret |-> ClientGetBlockMut(client, p)]
    /\ UNCHANGED <<conv, server, client, simVars, clientVars, tickVars>>

StoreNext == StoreSet \/ StoreRemove \/ StoreGet \/ StoreGetMut

SpecStore == StoreInit /\ [][StoreNext]_vars

(***************************************************************************)
(* C1: in every reachable state of the two stores, a set(p, b) is followed *)
(* by get(p) = b and a remove(p) is followed by get(p) = None, on the      *)
(* server store and on the client store, negative coordinates included.    *)
(***************************************************************************)
C1_SetGetRemoveGet ==
    /\ call.op = "set" =>
        /\ ServerGetBlock(server, call.pos) = call.block
        /\ ClientGetBlock(client, call.pos) = call.block
    /\ call.op = "remove" =>
        /\ ServerGetBlock(server, call.pos) = None
        /\ ClientGetBlock(client, call.pos) = None

\* A block at a negative coordinate was removed from both stores after it
\* had been set there.
C1_Witness ==
    /\ call.op = "remove"
    /\ call.pos = IVec3(-16, 15, -17)
    /\ call.sold \in StoreBlocks
    /\ call.cold \in StoreBlocks
    /\ call.sret = call.sold
    /\ call.cret = call.cold

(***************************************************************************)
(* C8: the local offset of every block coordinate lies in [0, CHUNK_SIZE), *)
(* chunk * CHUNK_SIZE + offset gives the coordinate back (-1 is offset 15  *)
(* of chunk -1), and two distinct coordinates never share the pair         *)
(* (chunk, offset).                                                        *)
(***************************************************************************)
C8_LocalOffsetNormalized ==
    /\ conv.cur.offset \in 0..(CHUNK_SIZE - 1)
    /\ conv.cur.chunk * CHUNK_SIZE + conv.cur.offset = conv.cur.v
    /\ conv.cur.v = -1 => (conv.cur.chunk = -1 /\ conv.cur.offset = 15)
    /\ conv.cur.v # conv.old.v =>
        <<conv.cur.chunk, conv.cur.offset>> # <<conv.old.chunk, conv.old.offset>>

\* -1 was converted right after -17: both have offset 15, in different chunks.
C8_Witness ==
    /\ conv.cur.v = -1
    /\ conv.old.v = -17
    /\ conv.cur.offset = conv.old.offset
    /\ conv.cur.chunk = -1

(***************************************************************************)
(* C14: a remove(p) that finds no block at p, because the owning chunk is  *)
(* absent or has no entry at p, returns None and leaves both stores as     *)
(* they were: same chunks, same block maps, same lookups, no new chunk.    *)
(***************************************************************************)
C14_RemoveAbsentIsNoOp ==
    [][(call'.n # call.n /\ call'.op = "remove") =>
        /\ ServerGetBlock(server, call'.pos) = None =>
            (call'.sret = None /\ server' = server)
        /\ ClientGetBlock(client, call'.pos) = None =>
            (call'.cret = None /\ client' = client)]_vars

\* A remove returned None on a chunk that exists (an earlier remove emptied
\* it) while other chunk coordinates are still absent.
C14_Witness ==
    /\ call.op = "remove"
    /\ call.sret = None
    /\ call.cret = None
    /\ global_block_to_chunk_pos(call.pos) \in DOMAIN server.map
    /\ global_block_to_chunk_pos(call.pos) \in DOMAIN client.map
    /\ server.map[global_block_to_chunk_pos(call.pos)].map = EmptyMap
    /\ Len(server.chunks_to_update) = 2

\* The chunk coordinates in the server's pending-update queue.
Pending(s) == {s.chunks_to_update[i] : i \in DOMAIN s.chunks_to_update}

(***************************************************************************)
(* C20, as claimed: after every set(pos, block) and every remove(pos) the  *)
(* chunk coordinate of pos is in the server's chunks_to_update, and the    *)
(* call adds no other coordinate.                                          *)
(***************************************************************************)
C20_EverySetAndRemoveMarks ==
    [][(call'.n # call.n /\ call'.op \in {"set", "remove"}) =>
        /\ global_block_to_chunk_pos(call'.pos) \in Pending(server')
        /\ Pending(server') \subseteq
               Pending(server) \cup {global_block_to_chunk_pos(call'.pos)}]_vars

(***************************************************************************)
(* C20, amended: on the server store every set(pos, block), and every      *)
(* remove(pos) that finds a block at pos, appends the chunk coordinate of  *)
(* pos, and nothing else, to chunks_to_update; a remove(pos) that finds no *)
(* block, a get and a get_mut leave the queue as it was.                   *)
(***************************************************************************)
C20_DirtyMarking ==
    [][call'.n # call.n =>
        IF call'.op = "set" \/ (call'.op = "remove" /\ call'.sret # None)
        THEN server'.chunks_to_update =
                 Append(server.chunks_to_update,
                        global_block_to_chunk_pos(call'.pos))
        ELSE server'.chunks_to_update = server.chunks_to_update]_vars

\* A block at negative coordinates was set and then removed: its chunk was
\* queued once by each call.
C20_Witness ==
    /\ call.op = "remove"
    /\ call.pos = IVec3(-16, 15, -17)
    /\ call.sret # None
    /\ server.chunks_to_update = <<IVec3(-1, 0, -2), IVec3(-1, 0, -2)>>

\* Block coordinates looked up on both stores: the edited positions and
\* their neighbours across chunk borders.
ProbePositions ==
    StorePositions \cup
    {IVec3(p.x + dx, p.y, p.z + dz) : p \in StorePositions,
                                      dx \in {-CHUNK_SIZE, -1, 1},
                                      dz \in {-1, 1, CHUNK_SIZE}}

(***************************************************************************)
(* C24: after every sequence of set and remove calls applied to an empty   *)
(* server store and an empty client store alike, both stores hold the same *)
(* chunk coordinates and the same blocks in each chunk, get(p) returns the *)
(* same result on both for every block coordinate p, and every remove      *)
(* returned the same value on both.                                        *)
(***************************************************************************)
C24_StoresInterchangeable ==
    /\ DOMAIN server.map = DOMAIN client.map
    /\ \A c \in DOMAIN server.map : server.map[c].map = client.map[c].map
    /\ \A p \in ProbePositions :
        ServerGetBlock(server, p) = ClientGetBlock(client, p)
    /\ call.op \in {"remove", "get", "get_mut"} => call.sret = call.cret

\* Two blocks were set in different chunks and one of them was removed:
\* both stores returned it, both still hold the other, in the same two
\* chunks.
C24_Witness ==
    /\ call.op = "remove"
    /\ call.n = 3
    /\ call.sret \in StoreBlocks
    /\ call.cret = call.sret
    /\ Cardinality(DOMAIN server.map) = 2
    /\ DOMAIN client.map = DOMAIN server.map
    /\ \E p \in StorePositions :
        /\ ServerGetBlock(server, p) \in StoreBlocks
        /\ ClientGetBlock(client, p) = ServerGetBlock(server, p)
    /\ ClientGetBlock(client, call.pos) = None

(***************************************************************************)
(* The movement simulator on two replicas: `player` against the server     *)
(* store and `mirror` against the client store, both stores filled with    *)
(* the same blocks and both replicas fed the same frame inputs.            *)
(***************************************************************************)
MaxSims == 2

\* Blocks of the loaded world: a floor at y = 10 around the origin, a wall
\* on its +x side, and blocks without a full hitbox.
WorldBlocks ==
    <<[pos |-> IVec3(0, 10, 0), block |-> BlockData("Stone")],
      [pos |-> IVec3(-1, 10, 0), block |-> BlockData("Stone")],
      [pos |-> IVec3(0, 10, -1), block |-> BlockData("Stone")],
      [pos |-> IVec3(-1, 10, -1), block |-> BlockData("Stone")],
      [pos |-> IVec3(1, 11, 0), block |-> BlockData("Stone")],
      [pos |-> IVec3(1, 12, 0), block |-> BlockData("Stone")],
      [pos |-> IVec3(0, 11, -1), block |-> BlockData("Water")],
      [pos |-> IVec3(-1, 11, 0), block |-> BlockData("Dandelion")]>>

RECURSIVE ServerFill(_, _)
ServerFill(s, blocks) ==
    IF blocks = <<>> THEN s
    ELSE ServerFill(ServerSetBlock(s, Head(blocks).pos, Head(blocks).block),
                    Tail(blocks))

RECURSIVE ClientFill(_, _)
ClientFill(c, blocks) ==
    IF blocks = <<>> THEN c
    ELSE ClientFill(ClientSetBlock(c, Head(blocks).pos, Head(blocks).block),
                    Tail(blocks))

\* The 27 chunks around chunk (0, 0, 0), as the server tick loads them.
LoadedChunks == {IVec3(i, j, k) : i \in -1..1, j \in -1..1, k \in -1..1}

\* A world is the blocks set in it and the chunks loaded before them.
Worlds ==
    {[chunks |-> {}, blocks |-> <<>>],
     [chunks |-> {}, blocks |-> WorldBlocks],
     [chunks |-> LoadedChunks, blocks |-> WorldBlocks]}

\* Players at entry: standing on the floor, falling onto it, beside the
\* corner of the wall, rising under the wall, flying, and near the fall
\* limit.
SimPlayers ==
    {NewPlayer(1, Vec3(500, 11900, 500), 0, FALSE, TRUE),
     NewPlayer(1, Vec3(-500, 11950, -500), -2000, FALSE, FALSE),
     NewPlayer(1, Vec3(500, 11900, 1500), 0, FALSE, TRUE),
     NewPlayer(1, Vec3(1500, 10050, 500), 2000, FALSE, FALSE),
     NewPlayer(1, Vec3(500, 13000, 500), 0, TRUE, FALSE),
     NewPlayer(1, Vec3(500, -49900, 500), -2000, FALSE, FALSE),
     NewPlayer(1, Vec3(500, -49900, 500), -6000, FALSE, FALSE),
     NewPlayer(1, Vec3(500, -49000, 500), 0, TRUE, FALSE)}

SimDeltas == {0, 50}

SimInputs ==
    {[inputs |-> {}, camera |-> Camera(0, 0)],
     [inputs |-> {"MoveForward"}, camera |-> Camera(6, 0)],
     [inputs |-> {"MoveForward", "MoveRight"}, camera |-> Camera(0, 1)],
     [inputs |-> {"MoveBackward", "MoveLeft"}, camera |-> Camera(1, 0)],
     [inputs |-> {"JumpOrFlyUp"}, camera |-> Camera(0, 0)],
     [inputs |-> {"SneakOrFlyDown"}, camera |-> Camera(0, 0)],
     [inputs |-> {"ToggleFlyMode"}, camera |-> Camera(0, 0)],
     [inputs |-> {"ToggleFlyMode", "SneakOrFlyDown"}, camera |-> Camera(0, 0)],
     [inputs |-> {"ToggleFlyMode", "JumpOrFlyUp", "MoveForward"},
      camera |-> Camera(6, 0)]}

SimInit ==
    /\ CoordIdle
    /\ \E w \in Worlds :
        /\ server = ServerFill([map |-> [c \in w.chunks |-> DefaultServerChunk],
                                chunks_to_update |-> <<>>], w.blocks)
        /\ client = ClientFill([map |-> [c \in w.chunks |-> DefaultClientChunk]],
                               w.blocks)
    /\ call = [op |-> "none", n |-> 0]
    /\ player \in SimPlayers
    /\ mirror = player
    /\ prev = player
    /\ moved = player
    /\ frame = NoFrame
    /\ simCount = 0
    /\ ClientIdle
    /\ TickIdle

Simulate ==
    /\ simCount < MaxSims
    /\ \E d \in SimDeltas, i \in SimInputs :
        LET f == FrameInput(frame.time_ms + d, d, i.inputs, i.camera)
        IN  /\ frame' = f
            /\ prev' = player
            /\ moved' = IF NotReady(player) THEN player
                        ELSE MoveBranch(player, ServerWorld(server), f)
            /\ player' = simulate_player_movement(player, ServerWorld(server), f)
            /\ mirror' = simulate_player_movement(mirror, ClientWorld(client), f)
    /\ simCount' = simCount + 1
    /\ UNCHANGED <<conv, storeVars, clientVars, tickVars>>

SimNext == Simulate

SpecSim == SimInit /\ [][SimNext]_vars

\* Chunks of the 1-chunk-radius neighbourhood of p that the store holds.
LoadedAround(p, s) ==
    LET chunks == get_surrounding_chunks(p.position, 1)
    IN  {chunks[n] : n \in DOMAIN chunks} \cap DOMAIN s.map

Flags(p) == <<p.position, p.velocity, p.is_flying, p.on_ground>>

\* is_flying as the movement branch sees it, after the toggle.
FliesAfterToggle ==
    IF "ToggleFlyMode" \in frame.inputs THEN ~prev.is_flying ELSE prev.is_flying

(***************************************************************************)
(* C2: a simulation whose input has delta_ms = 0 leaves the whole player   *)
(* unchanged (position, velocity, is_flying, on_ground, camera_transform), *)
(* whatever actions the input carries.                                     *)
(***************************************************************************)
C2_ZeroDeltaNoChange ==
    (simCount > 0 /\ frame.delta_ms = 0) => player = prev

(***************************************************************************)
(* C3: a simulation entered with fewer than 9 chunks of the player's       *)
(* 1-chunk-radius neighbourhood present in the store changes no field of   *)
(* the player.                                                             *)
(***************************************************************************)
C3_NotReadyNoChange ==
    (simCount > 0 /\ Cardinality(LoadedAround(prev, server)) < 9) => player = prev

C6_GroundClamp ==
    LET vy == Min(Max(prev.velocity.y, -MAX_VERTICAL_SPEED * Unit),
                  MAX_VERTICAL_SPEED * Unit)
        new_y == prev.position.y + TimesDelta(vy, frame.delta_ms)
        box == Aabb3d([prev.position EXCEPT !.y = new_y],
                      Vec3(PlayerHalfWidth, PlayerHalfHeight, PlayerHalfWidth))
        feet == prev.position.y - PlayerHalfHeight
        \* full-cube blocks under the player's feet that the candidate box meets
        below == {b \in {IVec3(x, y, z) : x \in Floor(box.min.x)..Floor(box.max.x),
                                          y \in Floor(box.min.y)..Floor(box.max.y),
                                          z \in Floor(box.min.z)..Floor(box.max.z)} :
                    /\ ServerGetBlock(server, b) # None
                    /\ get_hitbox(ServerGetBlock(server, b).id) = FullBlock
                    /\ (b.y + 1) * Unit <= feet}
    IN  (/\ simCount > 0
         /\ ~FliesAfterToggle
         /\ prev.velocity.y < 0
         /\ "JumpOrFlyUp" \notin frame.inputs
         /\ below # {})
        => /\ player.on_ground
           /\ player.velocity.y = 0
           /\ player.position.y = prev.position.y
           /\ \A b \in below :
                player.position.y - PlayerHalfHeight >= (b.y + 1) * Unit

\* A falling player was stopped by the floor block under it.
C6_Witness ==
    /\ simCount > 0
    /\ ~FliesAfterToggle
    /\ prev.velocity.y < 0
    /\ "JumpOrFlyUp" \notin frame.inputs
    /\ frame.delta_ms > 0
    /\ ServerGetBlock(server, IVec3(-1, 10, -1)) = BlockData("Stone")
    /\ prev.position = Vec3(-500, 11950, -500)
    /\ player.on_ground
    /\ player.velocity.y = 0
    /\ player.position.y = 11950

(***************************************************************************)
(* C7: when the position computed by a simulation has y below -50 the      *)
(* player ends at (0, 100, 0) with velocity.y = 0 and every other field as *)
(* computed; a computed y at or above -50 is kept; so no simulation ends   *)
(* with y below -50.                                                       *)
(***************************************************************************)
C7_FallOutRecovery ==
    simCount > 0 =>
        /\ moved.position.y < FALL_LIMIT * Unit =>
            player = [moved EXCEPT !.position = Vec3(0, 100 * Unit, 0),
                                   !.velocity.y = 0]
        /\ moved.position.y >= FALL_LIMIT * Unit => player = moved
        /\ player.position.y >= FALL_LIMIT * Unit

\* A falling player crossed the threshold with a non-zero velocity and was
\* moved to the respawn point.
C7_Witness ==
    /\ simCount > 0
    /\ moved.position.y < FALL_LIMIT * Unit
    /\ moved.velocity.y < 0
    /\ ~moved.is_flying
    /\ player.position = Vec3(0, 100 * Unit, 0)
    /\ player.velocity.y = 0

\* The direction the last step derived from its input.
StepDirection ==
    get_desired_direction([prev EXCEPT !.camera_transform = frame.camera], frame)

\* The player's hitbox at position pos.
PlayerBox(pos) == Aabb3d(pos, Vec3(PlayerHalfWidth, PlayerHalfHeight, PlayerHalfWidth))

(***************************************************************************)
(* C21: a simulation that runs with is_flying true after the toggle ends   *)
(* with velocity.y = 0 and on_ground = FALSE, and its movement branch      *)
(* displaces the position by direction * SPEED * FLY_SPEED_MULTIPLIER *    *)
(* delta whatever blocks the store holds (the fall-out recovery then       *)
(* applies to that position); so after any simulation is_flying implies    *)
(* on_ground = FALSE and velocity.y = 0.                                   *)
(***************************************************************************)
C21_FlyingBranch ==
    simCount > 0 =>
        /\ FliesAfterToggle =>
            /\ player.is_flying
            /\ player.velocity.y = 0
            /\ ~player.on_ground
            /\ moved.position =
                 Vec3(prev.position.x
                        + TimesDelta(StepDirection.x * SPEED * FLY_SPEED_MULTIPLIER,
                                     frame.delta_ms),
                      prev.position.y
                        + TimesDelta(StepDirection.y * SPEED * FLY_SPEED_MULTIPLIER,
                                     frame.delta_ms),
                      prev.position.z
                        + TimesDelta(StepDirection.z * SPEED * FLY_SPEED_MULTIPLIER,
                                     frame.delta_ms))
            /\ player.position = IF moved.position.y < FALL_LIMIT * Unit
                                 THEN RespawnPoint ELSE moved.position
        /\ player.is_flying => (~player.on_ground /\ player.velocity.y = 0)

\* A grounded or falling player toggled into flying and flew into the
\* blocks: its hitbox at the resulting position meets a solid block.
C21_Witness ==
    /\ simCount > 0
    /\ ~prev.is_flying
    /\ (prev.on_ground \/ prev.velocity.y # 0)
    /\ "ToggleFlyMode" \in frame.inputs
    /\ frame.delta_ms > 0
    /\ player.is_flying
    /\ player.position # prev.position
    /\ check_collision_box(ServerWorld(server), PlayerBox(player.position))
    /\ ~check_collision_box(ServerWorld(server), PlayerBox(prev.position))
    /\ player.velocity.y = 0
    /\ ~player.on_ground

\* The candidates of the last non-flying step: the position at entry with
\* one coordinate replaced.
StepVy == Min(Max(prev.velocity.y, -MAX_VERTICAL_SPEED * Unit),
              MAX_VERTICAL_SPEED * Unit)

CandidateX ==
    [prev.position EXCEPT
        !.x = @ + TimesDelta(StepDirection.x * SPEED, frame.delta_ms)]

CandidateY ==
    [prev.position EXCEPT !.y = @ + TimesDelta(StepVy, frame.delta_ms)]

CandidateZ ==
    [prev.position EXCEPT
        !.z = @ + TimesDelta(StepDirection.z * SPEED, frame.delta_ms)]

\* The hitbox at pos meets a solid block of the server store.
Blocked(pos) == check_collision_box(ServerWorld(server), PlayerBox(pos))

(***************************************************************************)
(* C22: in a non-flying step each axis is resolved by testing the hitbox   *)
(* at the candidate position that differs from the entry position on that  *)
(* axis only; an axis whose candidate collides keeps its previous          *)
(* coordinate, an axis whose candidate is free takes the candidate         *)
(* coordinate whatever happened on the other axes, and a vertical          *)
(* non-collision leaves on_ground = FALSE.                                 *)
(***************************************************************************)
C22_PerAxisResolution ==
    (simCount > 0 /\ ~FliesAfterToggle) =>
        /\ moved.position.x =
             IF Blocked(CandidateX) THEN prev.position.x ELSE CandidateX.x
        /\ moved.position.y =
             IF Blocked(CandidateY) THEN prev.position.y ELSE CandidateY.y
        /\ moved.position.z =
             IF Blocked(CandidateZ) THEN prev.position.z ELSE CandidateZ.z
        /\ ~Blocked(CandidateY) => ~moved.on_ground

\* A player walking diagonally against the wall on its +x side was stopped
\* on x, moved on z, and its free vertical move left it off the ground.
C22_Witness ==
    /\ simCount > 0
    /\ ~FliesAfterToggle
    /\ CandidateX.x > prev.position.x
    /\ Blocked(CandidateX)
    /\ ~Blocked(CandidateZ)
    /\ ~Blocked(CandidateY)
    /\ moved.position.x = prev.position.x
    /\ moved.position.z # prev.position.z
    /\ moved.position.z = CandidateZ.z
    /\ ~moved.on_ground

(***************************************************************************)
(* C23: in a non-flying step jump and gravity follow the vertical          *)
(* collision test and exclude each other: when the vertical candidate      *)
(* collided and jump is pressed, velocity.y becomes JUMP_VELOCITY and      *)
(* on_ground FALSE; when it did not collide, velocity.y is the clamped     *)
(* velocity plus GRAVITY * delta and on_ground is FALSE; when it collided  *)
(* and jump is not pressed, velocity.y is 0 and on_ground TRUE.  So a step *)
(* whose vertical move did not collide never raises velocity.y, jump held  *)
(* or not.                                                                 *)
(***************************************************************************)
C23_JumpOrGravity ==
    (simCount > 0 /\ ~FliesAfterToggle) =>
        /\ (Blocked(CandidateY) /\ "JumpOrFlyUp" \in frame.inputs) =>
            (moved.velocity.y = JUMP_VELOCITY * Unit /\ ~moved.on_ground)
        /\ ~Blocked(CandidateY) =>
            /\ moved.velocity.y = StepVy + TimesDelta(GRAVITY * Unit, frame.delta_ms)
            /\ moved.velocity.y <= StepVy
            /\ ~moved.on_ground
        /\ (Blocked(CandidateY) /\ "JumpOrFlyUp" \notin frame.inputs) =>
            (moved.velocity.y = 0 /\ moved.on_ground)

\* Jump was held over two frames: the first, blocked by the floor, gave the
\* impulse; the second, in the air, applied gravity to it.
C23_Witness ==
    /\ simCount = 2
    /\ ~FliesAfterToggle
    /\ ~prev.on_ground
    /\ prev.velocity.y = JUMP_VELOCITY * Unit
    /\ "JumpOrFlyUp" \in frame.inputs
    /\ frame.delta_ms > 0
    /\ ~Blocked(CandidateY)
    /\ moved.position.y > prev.position.y
    /\ moved.velocity.y = JUMP_VELOCITY * Unit + TimesDelta(GRAVITY * Unit, frame.delta_ms)
    /\ moved.velocity.y < JUMP_VELOCITY * Unit

(***************************************************************************)
(* C26: a non-flying step that starts with the player's hitbox free of     *)
(* solid blocks ends with it free of solid blocks, in an unchanged world,  *)
(* for every input and delta, a diagonal move toward the corner of a block *)
(* included.                                                               *)
(***************************************************************************)
C26_NoPenetration ==
    (simCount > 0 /\ ~FliesAfterToggle /\ ~Blocked(prev.position))
        => ~Blocked(player.position)

(***************************************************************************)
(* C27: after a non-flying step on_ground is TRUE only if the vertical     *)
(* move that was blocked was directed downward (velocity.y <= 0); a        *)
(* vertical collision while moving upward leaves the player off the        *)
(* ground and without the jump impulse.                                    *)
(***************************************************************************)
C27_GroundedFromBelow ==
    (simCount > 0 /\ ~FliesAfterToggle) =>
        /\ moved.on_ground => (StepVy <= 0 /\ Blocked(CandidateY))
        /\ (StepVy > 0 /\ Blocked(CandidateY)) =>
            /\ ~moved.on_ground
            /\ moved.velocity.y # JUMP_VELOCITY * Unit

(***************************************************************************)
(* The client frame: the input collaborator refreshes the keyboard state,  *)
(* then pre_input_update_system, update_frame_inputs_system and            *)
(* player_movement_system run once each, in this order.  `mirror` is the   *)
(* client's Player (NoPlayer until it is spawned), `client` its world.     *)
(***************************************************************************)
MaxFrames == 2

NoPlayer == [id |-> 0]

GameActions ==
    {"ToggleFlyMode", "MoveBackward", "MoveForward", "MoveLeft", "MoveRight",
     "Jump", "FlyDown"}

\* Key states the input collaborator reports in the model.
KeySets == {{}, {"ToggleFlyMode"}, {"ToggleFlyMode", "MoveForward"}, {"Jump"}}

FrameElapsed == {0, 50}

FrameCameras == {Camera(0, 0), Camera(6, 0)}

is_action_pressed(a, kb) == a \in kb.pressed

is_action_just_pressed(a, kb) == a \in kb.just_pressed

\* A toggle request read from the held keys instead of the key edge.
ToggleRequestedWhileHeld(kb, ui) ==
    ui = "Closed" /\ is_action_pressed("ToggleFlyMode", kb)

\* The condition under which player_movement_system inserts ToggleFlyMode.
ToggleRequested(kb, ui) ==
    ui = "Closed" /\ is_action_just_pressed("ToggleFlyMode", kb)

\* The NetworkActions player_movement_system inserts for the keyboard state.
CollectedActions(kb, ui) ==
    (IF ToggleRequested(kb, ui) THEN {"ToggleFlyMode"} ELSE {})
    \cup (IF is_action_pressed("MoveBackward", kb) THEN {"MoveBackward"} ELSE {})
    \cup (IF is_action_pressed("MoveForward", kb) THEN {"MoveForward"} ELSE {})
    \cup (IF is_action_pressed("MoveLeft", kb) THEN {"MoveLeft"} ELSE {})
    \cup (IF is_action_pressed("MoveRight", kb) THEN {"MoveRight"} ELSE {})
    \cup (IF is_action_pressed("Jump", kb) THEN {"JumpOrFlyUp"} ELSE {})
    \cup (IF is_action_pressed("FlyDown", kb) THEN {"SneakOrFlyDown"} ELSE {})

ClientInit ==
    /\ CoordIdle
    /\ server = [map |-> EmptyMap, chunks_to_update |-> <<>>]
    /\ client = ClientFill([map |-> [c \in LoadedChunks |-> DefaultClientChunk]],
                           WorldBlocks)
    /\ call = [op |-> "none", n |-> 0]
    /\ player = NewPlayer(1, RespawnPoint, 0, FALSE, FALSE)
    /\ mirror \in {NoPlayer, NewPlayer(1, Vec3(500, 11900, 500), 0, FALSE, TRUE)}
    /\ prev = mirror
    /\ moved = mirror
    /\ frame = NoFrame
    /\ simCount = 0
    /\ \E held \in KeySets : keyboard = [pressed |-> held, just_pressed |-> {}]
    /\ ui_mode = "Closed"
    /\ frame_inputs = NoFrame
    /\ tick_buffer = <<>>
    /\ sync_time = [curr_time_ms |-> 0, last_time_ms |-> 0]
    /\ sched = [next |-> "input", frames |-> 0, simulated |-> FALSE]
    /\ TickIdle

\* The input-mapping collaborator at the start of a frame: keys held now,
\* keys that went from released to pressed, and the UI mode.
KeyboardUpdate ==
    /\ sched.next = "input"
    /\ sched.frames < MaxFrames
    /\ \E held \in KeySets, ui \in {"Closed", "Opened"} :
        /\ keyboard' = [pressed |-> held, just_pressed |-> held \ keyboard.pressed]
        /\ ui_mode' = ui
    /\ sched' = [sched EXCEPT !.next = "pre_input", !.frames = @ + 1]
    /\ UNCHANGED <<conv, storeVars, simVars, frame_inputs, tick_buffer, sync_time,
                   tickVars>>

\* A step that resets the accumulator first and buffers the fresh one.
PreInputResetsFirst ==
    /\ sched.next = "pre_input"
    /\ \E elapsed \in FrameElapsed :
        LET advanced == [curr_time_ms |-> sync_time.curr_time_ms + elapsed,
                         last_time_ms |-> sync_time.curr_time_ms]
            delta == advanced.curr_time_ms - advanced.last_time_ms
        IN  /\ sync_time' = advanced
            /\ frame_inputs' = FrameInput(advanced.curr_time_ms, delta, {},
                                          Camera(0, 0))
            /\ tick_buffer' = Append(tick_buffer, frame_inputs')
    /\ sched' = [sched EXCEPT !.next = "update_frame_inputs"]
    /\ UNCHANGED <<conv, storeVars, simVars, keyboard, ui_mode, tickVars>>

pre_input_update_system ==
    /\ sched.next = "pre_input"
    /\ \E elapsed \in FrameElapsed :
        LET advanced == [curr_time_ms |-> sync_time.curr_time_ms + elapsed,
                         last_time_ms |-> sync_time.curr_time_ms]
            delta == advanced.curr_time_ms - advanced.last_time_ms
        IN  /\ sync_time' = advanced
            /\ tick_buffer' = Append(tick_buffer, frame_inputs)
            /\ frame_inputs' = FrameInput(advanced.curr_time_ms, delta, {},
                                          Camera(0, 0))
    /\ sched' = [sched EXCEPT !.next = "update_frame_inputs"]
    /\ UNCHANGED <<conv, storeVars, simVars, keyboard, ui_mode, tickVars>>

update_frame_inputs_system ==
    /\ sched.next = "update_frame_inputs"
    /\ IF frame_inputs.delta_ms = 0
       THEN UNCHANGED frame_inputs
       ELSE \E cam \in FrameCameras :
                frame_inputs' = [frame_inputs EXCEPT !.camera = cam]
    /\ sched' = [sched EXCEPT !.next = "player_movement"]
    /\ UNCHANGED <<conv, storeVars, simVars, keyboard, ui_mode, tick_buffer,
                   sync_time, tickVars>>

player_movement_system ==
    /\ sched.next = "player_movement"
    /\ IF frame_inputs.delta_ms = 0 \/ mirror = NoPlayer
       THEN /\ UNCHANGED <<mirror, moved, frame, simCount, frame_inputs>>
            /\ prev' = mirror
            /\ sched' = [sched EXCEPT !.next = "input", !.simulated = FALSE]
       ELSE LET collected == [frame_inputs EXCEPT
                                 !.inputs = @ \cup CollectedActions(keyboard, ui_mode)]
                after == simulate_player_movement(mirror, ClientWorld(client),
                                                  collected)
            IN  /\ prev' = mirror
                /\ frame' = collected
                /\ moved' = IF NotReady(mirror) THEN mirror
                            ELSE MoveBranch(mirror, ClientWorld(client), collected)
                /\ mirror' = after
                /\ simCount' = simCount + 1
                /\ frame_inputs' = [collected EXCEPT !.position = after.position]
                /\ sched' = [sched EXCEPT !.next = "input", !.simulated = TRUE]
    /\ UNCHANGED <<conv, storeVars, player, keyboard, ui_mode, tick_buffer,
                   sync_time, tickVars>>

ClientNext ==
    \/ KeyboardUpdate
    \/ pre_input_update_system
    \/ update_frame_inputs_system
    \/ player_movement_system

SpecClient == ClientInit /\ [][ClientNext]_vars

\* The state right after player_movement_system of a frame.
AfterMovement == sched.next = "input" /\ sched.frames > 0

(***************************************************************************)
(* C5: a simulation whose input set contains ToggleFlyMode flips is_flying *)
(* once and one without it leaves is_flying alone; the client inserts      *)
(* ToggleFlyMode only on a released-to-pressed transition of the key with  *)
(* the UI closed, so a key still held from the previous frame does not     *)
(* flip is_flying again.                                                   *)
(***************************************************************************)
C5_FlyToggleOnEdge ==
    AfterMovement =>
        /\ sched.simulated =>
            ((mirror.is_flying # prev.is_flying) <=> ("ToggleFlyMode" \in frame.inputs))
        /\ ~sched.simulated => mirror = prev
        /\ "ToggleFlyMode" \in frame_inputs.inputs =>
            /\ "ToggleFlyMode" \in keyboard.just_pressed
            /\ ui_mode = "Closed"
        /\ "ToggleFlyMode" \in (keyboard.pressed \ keyboard.just_pressed) =>
            mirror = NoPlayer \/ mirror.is_flying = prev.is_flying

\* The key was pressed in one frame, which flipped is_flying, and is still
\* held in the next frame, which simulated and did not flip it back.
C5_Witness ==
    /\ AfterMovement
    /\ sched.frames = 2
    /\ sched.simulated
    /\ "ToggleFlyMode" \in (keyboard.pressed \ keyboard.just_pressed)
    /\ mirror.is_flying
    /\ prev.is_flying
    /\ Len(tick_buffer) = 2
    /\ "ToggleFlyMode" \in tick_buffer[2].inputs

\* Number of pre_input_update_system steps that have run so far.
StepsRun == IF sched.next = "pre_input" THEN sched.frames - 1 ELSE sched.frames

(***************************************************************************)
(* C12: every pre_input_update_system step appends exactly one record to   *)
(* the outgoing buffer, the accumulator as it stood before the step, and   *)
(* resets the accumulator to the new timestamp and delta with no actions;  *)
(* no other step touches the buffer, so the buffer holds one record per    *)
(* step, in frame order with non-decreasing timestamps.                    *)
(***************************************************************************)
C12_OneRecordPerStep ==
    /\ [](/\ Len(tick_buffer) = StepsRun
          /\ \A i, j \in DOMAIN tick_buffer :
                i < j => tick_buffer[i].time_ms <= tick_buffer[j].time_ms
          /\ \A i \in DOMAIN tick_buffer :
                tick_buffer[i].time_ms <= frame_inputs.time_ms)
    /\ [][IF sched.next = "pre_input"
          THEN /\ tick_buffer' = Append(tick_buffer, frame_inputs)
               /\ frame_inputs'.inputs = {}
               /\ frame_inputs'.time_ms = sync_time'.curr_time_ms
               /\ frame_inputs'.delta_ms =
                      sync_time'.curr_time_ms - sync_time.curr_time_ms
          ELSE tick_buffer' = tick_buffer]_vars

\* The second step buffered the record of the first frame, with the actions
\* collected during that frame and its non-zero delta, and left a fresh
\* accumulator behind.
C12_Witness ==
    /\ sched.next = "update_frame_inputs"
    /\ Len(tick_buffer) = 2
    /\ tick_buffer[1] = NoFrame
    /\ tick_buffer[2].inputs # {}
    /\ tick_buffer[2].delta_ms > 0
    /\ frame_inputs.inputs = {}
    /\ frame_inputs.time_ms > tick_buffer[2].time_ms

(***************************************************************************)
(* The server: inputs arrive from connected clients and are buffered as    *)
(* PlayerInputsEvent, a client may disconnect (its Player is removed), and *)
(* handle_player_inputs_system runs once per tick.                         *)
(***************************************************************************)
MaxTicks == 2

MaxEvents == 3

\* world::generation::generate_chunk: a pure function of the chunk
\* coordinate (the seed is fixed); ground level is the layer y = 10.
generate_chunk(c) ==
    [DefaultServerChunk EXCEPT
        !.map = IF c.y = 0
                THEN [o \in {IVec3(0, 10, 0), IVec3(15, 10, 15)} |-> BlockData("Stone")]
                ELSE EmptyMap]

\* The cube of (2 * radius + 1)^3 chunk coordinates around the chunk c.
ChunkCube(c, radius) ==
    {IVec3(c.x + i, c.y + j, c.z + k) :
        i \in (-radius)..radius, j \in (-radius)..radius, k \in (-radius)..radius}

\* The chunk that contains a continuous position: the chunk of the block
\* the position floors to.
ChunkOfPosition(position) ==
    IVec3(block_to_chunk_coord(Floor(position.x)),
          block_to_chunk_coord(Floor(position.y)),
          block_to_chunk_coord(Floor(position.z)))

\* broadcast_world::get_all_active_chunks: the union of the players'
\* neighbourhoods of the given radius.
get_all_active_chunks(ps, radius) ==
    UNION {ChunkCube(ChunkOfPosition(ps[id].position), radius) : id \in DOMAIN ps}

\* A chunk step that generates every active chunk anew.
EnsureChunksRegenerates(s, ps) ==
    LET active == get_all_active_chunks(ps, 1)
    IN  [s EXCEPT !.map = [c \in (DOMAIN s.map) \cup active |->
                              IF c \in active THEN generate_chunk(c)
                              ELSE s.map[c]]]

\* Step (a) of the tick: generate and insert the chunks that are missing.
EnsureChunks(s, ps) ==
    LET active == get_all_active_chunks(ps, 1)
    IN  [s EXCEPT !.map = [c \in (DOMAIN s.map) \cup active |->
                              IF c \in DOMAIN s.map THEN s.map[c]
                              ELSE generate_chunk(c)]]

\* players::simulation::simulate_player_actions for CallerType::Server.
simulate_player_actions(p, s, frame_input) ==
    simulate_player_movement(p, ServerWorld(s), frame_input)

\* One iteration of the event loop, on the event's own player.
ApplyEvent(ps, s, ev) ==
    [ps EXCEPT ![ev.client_id] =
        [simulate_player_actions(@, s, ev.input) EXCEPT
            !.last_input_processed = ev.input.time_ms]]

\* Step (b): the loop over events.read(); players.get_mut(..).unwrap()
\* panics on a client_id that has no Player, which ends the loop.  (next is
\* bound through a singleton set so that each iteration is evaluated once.)
RECURSIVE ApplyEvents(_, _, _)
ApplyEvents(ps, s, evs) ==
    IF evs = <<>> THEN [players |-> ps, panicked |-> FALSE]
    ELSE IF Head(evs).client_id \notin DOMAIN ps
         THEN [players |-> ps, panicked |-> TRUE]
         ELSE CHOOSE r \in {ApplyEvents(next, s, Tail(evs)) :
                                next \in {ApplyEvent(ps, s, Head(evs))}} : TRUE

PlayerUpdateEvent(p) ==
    [id |-> p.id, position |-> p.position, orientation |-> p.camera_transform,
     last_ack_time |-> p.last_input_processed, inventory |-> p.inventory]

\* The orders in which players.values() may visit the map.
VisitOrders(ps) ==
    {o \in [1..Cardinality(DOMAIN ps) -> DOMAIN ps] :
        \A i, j \in DOMAIN o : i # j => o[i] # o[j]}

TickPlayers ==
    [id \in {1, 2} |->
        IF id = 1 THEN NewPlayer(1, Vec3(500, 11900, 500), 0, FALSE, TRUE)
        ELSE NewPlayer(2, Vec3(-500, 11950, -500), -2000, FALSE, FALSE)]

TickInputs ==
    {[delta_ms |-> 50, inputs |-> {"MoveForward"}, camera |-> Camera(6, 0)],
     [delta_ms |-> 50, inputs |-> {"ToggleFlyMode", "JumpOrFlyUp"},
      camera |-> Camera(0, 0)]}

TickInit ==
    /\ CoordIdle
    /\ StoreIdle
    /\ SimIdle
    /\ ClientIdle
    /\ players = TickPlayers
    /\ events = <<>>
    /\ sent = <<>>
    /\ tickLog = [n |-> 0, last |-> "none", received |-> 0, read |-> <<>>,
                  before |-> EmptyMap, panicked |-> FALSE]

\* The transport delivers one frame input of a connected client.
ReceiveInput ==
    /\ ~tickLog.panicked
    /\ tickLog.received < MaxEvents
    /\ \E id \in DOMAIN players, i \in TickInputs :
        events' = Append(events,
            [client_id |-> id,
             input |-> FrameInput(50 * (tickLog.received + 1), i.delta_ms,
                                  i.inputs, i.camera)])
    /\ tickLog' = [tickLog EXCEPT !.received = @ + 1, !.last = "receive"]
    /\ UNCHANGED <<conv, storeVars, simVars, clientVars, players, sent>>

\* A client disconnects: its Player is removed; what it sent stays buffered.
Disconnect ==
    /\ ~tickLog.panicked
    /\ \E id \in DOMAIN players : players' = MapRemove(players, id)
    /\ tickLog' = [tickLog EXCEPT !.last = "disconnect"]
    /\ UNCHANGED <<conv, storeVars, simVars, clientVars, events, sent>>

handle_player_inputs_system ==
    /\ ~tickLog.panicked
    /\ tickLog.n < MaxTicks
    /\ \E chunks \in {EnsureChunks(server, players)} :
       \E applied \in {ApplyEvents(players, chunks, events)} :
           /\ server' = chunks
           /\ players' = applied.players
           /\ IF applied.panicked
              THEN sent' = <<>>
              ELSE \E o \in VisitOrders(applied.players) :
                      sent' = [i \in DOMAIN o |-> PlayerUpdateEvent(applied.players[o[i]])]
           /\ tickLog' = [tickLog EXCEPT !.n = @ + 1, !.last = "tick",
                                         !.read = events, !.before = players,
                                         !.panicked = applied.panicked]
    /\ events' = <<>>
    /\ UNCHANGED <<conv, client, call, simVars, clientVars>>

TickNext == ReceiveInput \/ Disconnect \/ handle_player_inputs_system

SpecTick == TickInit /\ [][TickNext]_vars

\* The state a tick leaves behind.
AfterTick == tickLog.last = "tick"

\* The events of the last tick that came from client id, in arrival order.
EventsOf(id) == SelectSeq(tickLog.read, LAMBDA ev : ev.client_id = id)

\* The player id as the last tick found it, advanced by its own events alone.
RECURSIVE AdvancedBy(_, _)
AdvancedBy(p, evs) ==
    IF evs = <<>> THEN p
    ELSE CHOOSE r \in {AdvancedBy(next, Tail(evs)) :
                next \in {[simulate_player_movement(p, ServerWorld(server), Head(evs).input)
                            EXCEPT !.last_input_processed = Head(evs).input.time_ms]}} : TRUE

(***************************************************************************)
(* C9: a tick applies the buffered events in arrival order, each to the    *)
(* Player of its client_id, and sets last_input_processed after each; at   *)
(* the end of the tick every player that had inputs is its state before    *)
(* the tick advanced by its inputs in order, with last_input_processed the *)
(* time_ms of the last input that arrived for it.                          *)
(***************************************************************************)
C9_InputsAppliedInArrivalOrder ==
    AfterTick =>
        \A id \in DOMAIN players :
            EventsOf(id) # <<>> =>
                /\ players[id].last_input_processed =
                       EventsOf(id)[Len(EventsOf(id))].input.time_ms
                /\ players[id] = AdvancedBy(tickLog.before[id], EventsOf(id))

(***************************************************************************)
(* C10: a tick broadcasts exactly one PlayerUpdate per connected player,   *)
(* after all its input events were applied: each snapshot carries the      *)
(* player's position, orientation, last_input_processed and inventory as   *)
(* they are at the end of the tick.                                        *)
(***************************************************************************)
C10_OneSnapshotPerPlayer ==
    AfterTick =>
        /\ Len(sent) = Cardinality(DOMAIN players)
        /\ \A id \in DOMAIN players :
            \E i \in DOMAIN sent :
                /\ sent[i] = PlayerUpdateEvent(players[id])
                /\ \A j \in DOMAIN sent : sent[j].id = id => j = i

(***************************************************************************)
(* C11: a player without a pending input in a tick keeps all its fields    *)
(* and is still part of the tick's broadcast; a player's state after the   *)
(* tick depends on its own inputs alone, never on those of another client. *)
(***************************************************************************)
C11_IdlePlayerNotAdvanced ==
    AfterTick =>
        \A id \in DOMAIN players :
            /\ EventsOf(id) = <<>> =>
                /\ players[id] = tickLog.before[id]
                /\ \E i \in DOMAIN sent : sent[i] = PlayerUpdateEvent(tickLog.before[id])
            /\ Flags(players[id]) = Flags(AdvancedBy(tickLog.before[id], EventsOf(id)))

(***************************************************************************)
(* C25: a tick is never aborted by one input: an event whose client_id has *)
(* no Player (its client disconnected while the input was buffered) is     *)
(* skipped, the events of every other player are applied in order, and the *)
(* tick broadcasts one snapshot per remaining player.                      *)
(***************************************************************************)
C25_TickSurvivesStaleInput ==
    AfterTick =>
        /\ ~tickLog.panicked
        /\ \A id \in DOMAIN players :
            /\ id \in DOMAIN tickLog.before
            /\ players[id] = AdvancedBy(tickLog.before[id], EventsOf(id))
            /\ \E i \in DOMAIN sent : sent[i] = PlayerUpdateEvent(players[id])

(***************************************************************************)
(* The world over its lifetime: block edits on both stores interleaved     *)
(* with arriving inputs and server ticks.                                  *)
(***************************************************************************)
\* The edited positions: one in the chunk the players stand in, one in a
\* chunk outside every player's neighbourhood.
EditPositions == {IVec3(0, 0, 0), IVec3(-16, 15, -17)}

WorldEdit ==
    /\ ~tickLog.panicked
    /\ StoreNext
    /\ call'.pos \in EditPositions
    /\ call'.op = "set" => call'.block = BlockData("Stone")

\* While the world is edited only client 1 sends, and only forward moves.
WorldReceive ==
    /\ ReceiveInput
    /\ events'[Len(events')].client_id = 1
    /\ "MoveForward" \in events'[Len(events')].input.inputs

WorldNext ==
    \/ WorldEdit
    \/ WorldReceive
    \/ handle_player_inputs_system

SpecWorld == TickInit /\ [][WorldNext]_vars

(***************************************************************************)
(* C13: no operation removes a chunk: across every step (get, get_mut,     *)
(* set, remove, and the server tick with its simulator calls) the chunk    *)
(* coordinates of both stores only grow, and a remove that took the last   *)
(* block of a chunk leaves the empty chunk in the map.                     *)
(***************************************************************************)
C13_ChunksNeverDeleted ==
    /\ [](call.op = "remove" =>
            /\ call.sret # None =>
                global_block_to_chunk_pos(call.pos) \in DOMAIN server.map
            /\ call.cret # None =>
                global_block_to_chunk_pos(call.pos) \in DOMAIN client.map)
    /\ [][/\ DOMAIN server.map \subseteq DOMAIN server'.map
          /\ DOMAIN client.map \subseteq DOMAIN client'.map]_vars

\* After a tick had generated chunks, the only block of a chunk outside the
\* players' neighbourhood was removed: the chunk is still there, empty.
C13_Witness ==
    /\ tickLog.n > 0
    /\ call.op = "remove"
    /\ call.pos = IVec3(-16, 15, -17)
    /\ call.sret = BlockData("Stone")
    /\ call.cret = BlockData("Stone")
    /\ server.map[global_block_to_chunk_pos(call.pos)].map = EmptyMap
    /\ client.map[global_block_to_chunk_pos(call.pos)].map = EmptyMap
    /\ Cardinality(DOMAIN server.map) > 1

(***************************************************************************)
(* C19: the chunk step of a tick leaves every chunk of the 1-chunk-radius  *)
(* neighbourhood of every connected player present before inputs are       *)
(* applied; it inserts exactly the missing coordinates, each with the      *)
(* generated chunk, and a chunk that was present, also one that set_block  *)
(* created and that is empty, keeps its content.                           *)
(***************************************************************************)
C19_ChunkStepGeneratesMissing ==
    /\ [](AfterTick =>
            \A id \in DOMAIN tickLog.before :
                ChunkCube(ChunkOfPosition(tickLog.before[id].position), 1)
                    \subseteq DOMAIN server.map)
    /\ [][tickLog'.n # tickLog.n =>
            /\ DOMAIN server'.map =
                   (DOMAIN server.map) \cup get_all_active_chunks(players, 1)
            /\ \A c \in DOMAIN server.map : server'.map[c] = server.map[c]
            /\ \A c \in (DOMAIN server'.map) \ (DOMAIN server.map) :
                   server'.map[c] = generate_chunk(c)]_vars

\* The first tick found the chunk the players stand in already present and
\* empty (a block was set there and removed again): it is still empty,
\* although generate_chunk yields blocks for it, and the rest of the
\* neighbourhood was generated.
C19_Witness ==
    /\ AfterTick
    /\ tickLog.n = 1
    /\ call.op = "remove"
    /\ call.pos = IVec3(0, 0, 0)
    /\ call.sret # None
    /\ server.map[IVec3(0, 0, 0)].map = EmptyMap
    /\ generate_chunk(IVec3(0, 0, 0)).map # EmptyMap
    /\ server.map[IVec3(-1, 0, -1)] = generate_chunk(IVec3(-1, 0, -1))
    /\ ChunkCube(IVec3(0, 0, 0), 1) \subseteq DOMAIN server.map

(***************************************************************************)
(* The derived queries of trait WorldMap as pure functions: both stores    *)
(* hold the same blocks and answer collision, neighbourhood and height     *)
(* queries drawn from small sets.                                          *)
(***************************************************************************)
MaxQueries == 2

\* Sub-box blocks at the origin and away from it, a full cube, a block
\* without hitbox, a block at negative coordinates, and columns whose only
\* blocks are at y = -1 and y = 256, at y = 0, and at y = 255.
QueryBlocks ==
    <<[pos |-> IVec3(0, 0, 0), block |-> BlockData("Dandelion")],
      [pos |-> IVec3(2, 0, 0), block |-> BlockData("Dandelion")],
      [pos |-> IVec3(0, 3, 0), block |-> BlockData("Stone")],
      [pos |-> IVec3(0, 5, 0), block |-> BlockData("Water")],
      [pos |-> IVec3(-1, 0, -1), block |-> BlockData("Stone")],
      [pos |-> IVec3(4, -1, 4), block |-> BlockData("Stone")],
      [pos |-> IVec3(4, 256, 4), block |-> BlockData("Stone")],
      [pos |-> IVec3(6, 255, 6), block |-> BlockData("Stone")]>>

QueryWorlds == {<<>>, SubSeq(QueryBlocks, 1, 5), QueryBlocks}

QueryBoxes ==
    {[min |-> Vec3(700, 0, 300), max |-> Vec3(1000, 500, 700)],
     [min |-> Vec3(500, 0, 500), max |-> Vec3(900, 500, 900)],
     [min |-> Vec3(800, 0, 800), max |-> Vec3(950, 500, 950)],
     [min |-> Vec3(2400, 100, 400), max |-> Vec3(2600, 300, 600)],
     [min |-> Vec3(100, 3100, 100), max |-> Vec3(200, 3200, 200)],
     [min |-> Vec3(100, 5100, 100), max |-> Vec3(200, 5200, 200)],
     [min |-> Vec3(-500, 100, -500), max |-> Vec3(-400, 200, -400)],
     [min |-> Vec3(5100, 100, 5100), max |-> Vec3(5900, 1900, 5900)]}

QueryPoints ==
    {Vec3(500, 11900, 500), Vec3(-500, 11900, -500), Vec3(-1500, 0, -1500),
     Vec3(4500, 0, 4500), Vec3(6500, 300000, 6500), Vec3(8500, 0, 8500),
     Vec3(-16500, -500, 15999), Vec3(16000, -16000, -32001)}

QueryInit ==
    /\ CoordIdle
    /\ \E blocks \in QueryWorlds :
        /\ server = ServerFill([map |-> EmptyMap, chunks_to_update |-> <<>>], blocks)
        /\ client = ClientFill([map |-> EmptyMap], blocks)
    /\ call = [op |-> "none", n |-> 0]
    /\ SimIdle
    /\ ClientIdle
    /\ TickIdle

QueryCollision ==
    /\ call.n < MaxQueries
    /\ \E box \in QueryBoxes :
        call' = [op |-> "collision", n |-> call.n + 1, box |-> box,
                 sret |-> check_collision_box(ServerWorld(server), box),
                 cret |-> check_collision_box(ClientWorld(client), box)]
    /\ UNCHANGED <<conv, server, client, simVars, clientVars, tickVars>>

QuerySurrounding ==
    /\ call.n < MaxQueries
    /\ \E position \in QueryPoints, radius \in 0..1 :
        call' = [op |-> "surrounding", n |-> call.n + 1, position |-> position,
                 radius |-> radius,
                 ret |-> get_surrounding_chunks(position, radius)]
    /\ UNCHANGED <<conv, server, client, simVars, clientVars, tickVars>>

QueryHeight ==
    /\ call.n < MaxQueries
    /\ \E position \in QueryPoints :
        call' = [op |-> "height", n |-> call.n + 1, position |-> position,
                 sret |-> get_height_ground(ServerWorld(server), position),
                 cret |-> get_height_ground(ClientWorld(client), position)]
    /\ UNCHANGED <<conv, server, client, simVars, clientVars, tickVars>>

QueryNext == QueryCollision \/ QuerySurrounding \/ QueryHeight

SpecQuery == QueryInit /\ [][QueryNext]_vars

\* The sub-box of the block at the integer position pos, in world space.
SubBoxAt(hb, pos) ==
    [min |-> Vec3(pos.x * Unit + hb.min.x, pos.y * Unit + hb.min.y,
                  pos.z * Unit + hb.min.z),
     max |-> Vec3(pos.x * Unit + hb.max.x, pos.y * Unit + hb.max.y,
                  pos.z * Unit + hb.max.z)]

\* Two boxes overlap with positive extent on every axis.
OverlapsStrictly(a, b) ==
    /\ Max(a.min.x, b.min.x) < Min(a.max.x, b.max.x)
    /\ Max(a.min.y, b.min.y) < Min(a.max.y, b.max.y)
    /\ Max(a.min.z, b.min.z) < Min(a.max.z, b.max.z)

\* The answer C15 describes for the query box on the world w.
IntersectsSolid(w, box) ==
    \E x \in Floor(box.min.x)..Floor(box.max.x),
       y \in Floor(box.min.y)..Floor(box.max.y),
       z \in Floor(box.min.z)..Floor(box.max.z) :
        LET b == WorldGet(w, IVec3(x, y, z))
        IN  /\ b # None
            /\ \/ get_hitbox(b.id).kind = "FullBlock"
               \/ /\ get_hitbox(b.id).kind = "Aabb"
                  /\ OverlapsStrictly(SubBoxAt(get_hitbox(b.id), IVec3(x, y, z)), box)

(***************************************************************************)
(* C15: check_collision_box is true exactly when a block whose unit cube   *)
(* overlaps the query box has a full-cube hitbox, or a sub-box hitbox that *)
(* overlaps the query box with positive extent on every axis; a block      *)
(* without hitbox, a sub-box that only touches the query box and a sub-box *)
(* apart from it do not collide.                                           *)
(***************************************************************************)
C15_IntersectsSolid ==
    call.op = "collision" =>
        /\ call.sret = IntersectsSolid(ServerWorld(server), call.box)
        /\ call.cret = IntersectsSolid(ClientWorld(client), call.box)

(***************************************************************************)
(* C16: get_surrounding_chunks(position, radius) is the (2 * radius + 1)^3 *)
(* distinct chunk coordinates of the cube centred on the chunk of the      *)
(* block that contains position, the block being the floor of the          *)
(* position on each axis, negative fractional positions included.          *)
(***************************************************************************)
C16_SurroundingChunks ==
    call.op = "surrounding" =>
        LET side == 2 * call.radius + 1
            centre == ChunkOfPosition(call.position)
            got == {call.ret[n] : n \in DOMAIN call.ret}
        IN  /\ Len(call.ret) = side * side * side
            /\ Cardinality(got) = Len(call.ret)
            /\ got = ChunkCube(centre, call.radius)

\* The occupied heights of the column get_height_ground scans.
OccupiedHeights(w, position) ==
    {y \in 0..255 :
        WorldGet(w, IVec3(AsI32(position.x), y, AsI32(position.z))) # None}

\* The greatest element of a non-empty set of heights, 0 for the empty set.
TopOf(ys) == IF ys = {} THEN 0 ELSE CHOOSE y \in ys : \A o \in ys : o <= y

(***************************************************************************)
(* C17: get_height_ground returns the greatest y of [0, 256) at which the  *)
(* scanned column holds a block, and 0 when the column holds none in that  *)
(* range; blocks at y < 0 or y >= 256 do not count, and the query leaves   *)
(* the store as it was.                                                    *)
(***************************************************************************)
C17_HeightGround ==
    /\ [](call.op = "height" =>
            /\ call.sret = TopOf(OccupiedHeights(ServerWorld(server), call.position))
            /\ call.cret = TopOf(OccupiedHeights(ClientWorld(client), call.position)))
    /\ [][(call'.n # call.n /\ call'.op = "height") =>
            (server' = server /\ client' = client)]_vars

\* The scanned column holds blocks at y = -1 and y = 256 only: the answer
\* is 0.
C17_Witness ==
    /\ call.op = "height"
    /\ call.position = Vec3(4500, 0, 4500)
    /\ ServerGetBlock(server, IVec3(4, -1, 4)) # None
    /\ ServerGetBlock(server, IVec3(4, 256, 4)) # None
    /\ call.sret = 0
    /\ call.cret = 0

(***************************************************************************)
(* One stride of the simulator from the same player, with the same camera  *)
(* and delta, once with forward alone and once with forward and right.     *)
(***************************************************************************)
MaxStrides == 2

StridePlayers ==
    {NewPlayer(1, Vec3(500, 20900, 500), 0, FALSE, FALSE),
     NewPlayer(1, Vec3(500, 11900, 500), 0, FALSE, TRUE),
     NewPlayer(1, Vec3(-7500, 11900, -7500), -1000, FALSE, FALSE)}

StrideCameras == {Camera(yaw, pitch) : yaw \in 0..7, pitch \in {-1, 0, 1}}

StrideDeltas == {16, 50, 100}

StrideInit ==
    /\ CoordIdle
    /\ server = ServerFill([map |-> [c \in LoadedChunks |-> DefaultServerChunk],
                            chunks_to_update |-> <<>>], WorldBlocks)
    /\ client = ClientFill([map |-> [c \in LoadedChunks |-> DefaultClientChunk]],
                           WorldBlocks)
    /\ call = [op |-> "none", n |-> 0]
    /\ SimIdle
    /\ ClientIdle
    /\ TickIdle

Stride ==
    /\ call.n < MaxStrides
    /\ \E p \in StridePlayers, cam \in StrideCameras, d \in StrideDeltas :
        call' = [op |-> "stride", n |-> call.n + 1, before |-> p,
                 camera |-> cam, delta_ms |-> d,
                 axial |-> simulate_player_movement(p, ServerWorld(server),
                              FrameInput(d, d, {"MoveForward"}, cam)),
                 diagonal |-> simulate_player_movement(p, ServerWorld(server),
                              FrameInput(d, d, {"MoveForward", "MoveRight"}, cam))]
    /\ UNCHANGED <<conv, server, client, simVars, clientVars, tickVars>>

StrideNext == Stride

SpecStride == StrideInit /\ [][StrideNext]_vars

\* Squared length of the horizontal displacement from a to b.
HorizontalSq(a, b) ==
    (b.x - a.x) * (b.x - a.x) + (b.z - a.z) * (b.z - a.z)

\* The horizontal direction the stride asks for.
StrideDirection(inputs) ==
    get_desired_direction([call.before EXCEPT !.camera_transform = call.camera],
                          FrameInput(call.delta_ms, call.delta_ms, inputs, call.camera))

\* The player's box is free at the candidate position of the x axis and at
\* the candidate position of the z axis: no horizontal axis is cancelled.
Unobstructed(inputs) ==
    /\ ~check_player_collision(
            [call.before.position EXCEPT
                !.x = @ + TimesDelta(StrideDirection(inputs).x * SPEED, call.delta_ms)],
            call.before, ServerWorld(server))
    /\ ~check_player_collision(
            [call.before.position EXCEPT
                !.z = @ + TimesDelta(StrideDirection(inputs).z * SPEED, call.delta_ms)],
            call.before, ServerWorld(server))

\* Rounding of the fixed-point direction and displacement, per stride.
StrideTolerance == Unit \div 500

\* The squared length lies within the tolerance of SPEED * delta.
NearFullStride(sq, delta_ms) ==
    /\ sq <= (SPEED * delta_ms + StrideTolerance) * (SPEED * delta_ms + StrideTolerance)
    /\ sq >= (SPEED * delta_ms - StrideTolerance) * (SPEED * delta_ms - StrideTolerance)

(***************************************************************************)
(* C18: for a non-flying player whose horizontal movement is unobstructed  *)
(* and the same camera and delta, forward+right moves the player           *)
(* horizontally by the same distance as forward alone, SPEED * delta (up   *)
(* to the rounding of the fixed-point arithmetic).                         *)
(***************************************************************************)
C18_DiagonalNotFaster ==
    call.op = "stride" =>
        /\ Unobstructed({"MoveForward"}) =>
            NearFullStride(HorizontalSq(call.before.position, call.axial.position),
                           call.delta_ms)
        /\ Unobstructed({"MoveForward", "MoveRight"}) =>
            NearFullStride(HorizontalSq(call.before.position, call.diagonal.position),
                           call.delta_ms)

\* A diagonal stride moved the player on both horizontal axes, unobstructed,
\* next to an axial stride of the same camera and delta.
C18_Witness ==
    /\ call.op = "stride"
    /\ call.camera = Camera(0, 0)
    /\ call.delta_ms = 100
    /\ Unobstructed({"MoveForward"})
    /\ Unobstructed({"MoveForward", "MoveRight"})
    /\ call.diagonal.position.x # call.before.position.x
    /\ call.diagonal.position.z # call.before.position.z
    /\ call.axial.position.x = call.before.position.x

====
